---- MODULE Spec2Model ----
(***************************************************************************)
(* Model of the persistent hierarchical storage layer of ira               *)
(* (package storage: session.go, window.go, pane.go) on top of the bbolt   *)
(* key-value engine.                                                       *)
(*                                                                         *)
(* A store is the content of one bbolt database as one write transaction   *)
(* sees it:                                                                *)
(*   SESSION                 bucket  (sessionB, sessions)                  *)
(*     __session_lookup__    bucket  (lookupB, lookup)                     *)
(*   WINDOW                  bucket  (windowB)                             *)
(*     <session-id>          bucket  (windows[sid], keyN[sid])             *)
(*   PANE                    bucket  (paneB)                               *)
(*     <window-id>           bucket  (panes[wid])                          *)
(* Values are the JSON documents the code writes: records whose fields are *)
(* the json tags.  Identifiers are the canonical text of a UUID, modelled  *)
(* as naturals whose order is the byte order of the keys.                  *)
(***************************************************************************)
EXTENDS Naturals, Integers, Sequences, FiniteSets, TLC

VARIABLES tx, db, usedS, usedW, usedP, clock

vars == <<tx, db, usedS, usedW, usedP, clock>>

----------------------------------------------------------------------------
(* Bounds of the model *)

MaxSessions == 2
MaxWindows == 3
MaxPanes == 2
MaxNameLen == 2
MaxClock == 1
MaxTreeSessions == 2
MaxTreeWindows == 2
MaxTreePanes == 2

SessionIds == 1..MaxSessions
WindowIds == 1..MaxWindows
PaneIds == 1..MaxPanes
TreeSessionIds == 1..MaxTreeSessions
TreeWindowIds == 1..MaxTreeWindows
TreePaneIds == 1..MaxTreePanes

(* characters the raw session names given by callers are made of; a
   character that has no escape in a string here is written as its code
   point, "U+000B" being the vertical tab *)
InputChars == {"a", " ", "1", "U+000B"}

RECURSIVE SeqsUpTo(_, _)
SeqsUpTo(S, n) ==
  IF n = 0 THEN {<<>>}
  ELSE LET shorter == SeqsUpTo(S, n - 1)
       IN shorter \cup {Append(s, c) : s \in shorter, c \in S}

RawNames == SeqsUpTo(InputChars, MaxNameLen)

(* the session names of the hierarchy's runs *)
TreeNames == {<<"a">>, <<"b">>}

(* generated suffixes of window names, geometry and directories of panes *)
NanoIds == {"AbCdEfGh"}
Dims == {<<80, 24>>, <<120, 40>>}
Positions == {<<0, 0>>, <<5, 6>>}
Cwds == {"/tmp", "/home"}

----------------------------------------------------------------------------
(* enums.SessionStatus *)

Active == 0
Inactive == 1
Terminated == 2
Statuses == {Active, Inactive, Terminated}

----------------------------------------------------------------------------
(* bbolt primitives on a bucket's key/value content *)

NoKeys == [k \in {} |-> 0]

BucketGet(b, k) == IF k \in DOMAIN b THEN <<b[k]>> ELSE <<>>

BucketPut(b, k, v) == [x \in (DOMAIN b) \cup {k} |-> IF x = k THEN v ELSE b[x]]

BucketDelete(b, k) == [x \in (DOMAIN b) \ {k} |-> b[x]]

EmptyStore ==
  [sessionB |-> FALSE, lookupB |-> FALSE, sessions |-> NoKeys, lookup |-> NoKeys,
   windowB |-> FALSE, windows |-> NoKeys, keyN |-> NoKeys,
   paneB |-> FALSE, panes |-> NoKeys]

(* tx.CreateBucketIfNotExists(sessionBucketName) *)
EnsureSessionBucket(st) == [st EXCEPT !.sessionB = TRUE]

(* bucket.CreateBucketIfNotExists(lookupBucketName) *)
EnsureLookupBucket(st) == [st EXCEPT !.lookupB = TRUE]

(* tx.CreateBucketIfNotExists(windowBucketName) *)
EnsureWindowBucket(st) == [st EXCEPT !.windowB = TRUE]

(* bucket.CreateBucketIfNotExists(sessionId) inside WINDOW: a bucket made in
   this transaction is an empty inline bucket whose page holds no key. *)
EnsureWindowSessionBucket(st, sid) ==
  IF sid \in DOMAIN st.windows THEN st
  ELSE [st EXCEPT !.windows = BucketPut(@, sid, NoKeys),
                  !.keyN = BucketPut(@, sid, 0)]

(* tx.CreateBucketIfNotExists(paneBucketName) *)
EnsurePaneBucket(st) == [st EXCEPT !.paneB = TRUE]

(* bucket.CreateBucketIfNotExists(windowId) inside PANE *)
EnsurePaneWindowBucket(st, wid) ==
  IF wid \in DOMAIN st.panes THEN st
  ELSE [st EXCEPT !.panes = BucketPut(@, wid, NoKeys)]

(* Bucket.Stats().KeyN of a session's window bucket: bbolt counts the keys of
   the bucket's pages, which hold what was committed when the transaction
   began; keys put or deleted by the running transaction live in nodes that
   reach the pages only at commit. *)
StatsKeyN(st, sid) == st.keyN[sid]

(* Tx.Commit: the nodes are spilled to pages *)
Spill(st) ==
  [st EXCEPT !.keyN = [s \in DOMAIN st.windows |-> Cardinality(DOMAIN st.windows[s])]]

----------------------------------------------------------------------------
(* encoding/json on the three entry types *)

MarshalSession(e) ==
  [id |-> e.ID, name |-> e.Name, status |-> e.Status,
   createdAt |-> e.CreatedAt, updatedAt |-> e.UpdatedAt]

UnmarshalSession(j) ==
  [ID |-> j.id, Name |-> j.name, Status |-> j.status,
   CreatedAt |-> j.createdAt, UpdatedAt |-> j.updatedAt]

MarshalWindow(e) ==
  [id |-> e.ID, name |-> e.Name, index |-> e.Index, sessionId |-> e.SessionID,
   createdAt |-> e.CreatedAt, updatedAt |-> e.UpdatedAt]

UnmarshalWindow(j) ==
  [ID |-> j.id, Name |-> j.name, Index |-> j.index, SessionID |-> j.sessionId,
   CreatedAt |-> j.createdAt, UpdatedAt |-> j.updatedAt]

MarshalPane(e) ==
  [id |-> e.ID, sessionId |-> e.SsessionID, windowId |-> e.WindowID,
   width |-> e.Width, height |-> e.Height, x |-> e.X, y |-> e.Y, cwd |-> e.Cwd,
   createdAt |-> e.CreatedAt, updatedAt |-> e.UpdatedAt]

UnmarshalPane(j) ==
  [ID |-> j.id, SsessionID |-> j.sessionId, WindowID |-> j.windowId,
   Width |-> j.width, Height |-> j.height, X |-> j.x, Y |-> j.y, Cwd |-> j.cwd,
   CreatedAt |-> j.createdAt, UpdatedAt |-> j.updatedAt]

----------------------------------------------------------------------------
(* session.go: name validation *)

(* unicode.IsSpace, which strings.TrimSpace trims by: the ASCII and Latin-1
   spaces and the space separators of Unicode *)
WhiteSpace ==
  {" ", "\t", "\n", "\r", "\f", "U+000B", "U+0085", "U+00A0", "U+1680",
   "U+2000", "U+2001", "U+2002", "U+2003", "U+2004", "U+2005", "U+2006",
   "U+2007", "U+2008", "U+2009", "U+200A", "U+2028", "U+2029", "U+202F",
   "U+205F", "U+3000"}

NameChars ==
  {"A", "B", "C", "D", "E", "F", "G", "H", "I", "J", "K", "L", "M",
   "N", "O", "P", "Q", "R", "S", "T", "U", "V", "W", "X", "Y", "Z",
   "a", "b", "c", "d", "e", "f", "g", "h", "i", "j", "k", "l", "m",
   "n", "o", "p", "q", "r", "s", "t", "u", "v", "w", "x", "y", "z",
   "_", "-"}

NameMaxLen == 64

RECURSIVE TrimLeft(_)
TrimLeft(s) ==
  IF s # <<>> /\ Head(s) \in WhiteSpace THEN TrimLeft(Tail(s)) ELSE s

RECURSIVE TrimRight(_)
TrimRight(s) ==
  IF s # <<>> /\ s[Len(s)] \in WhiteSpace
  THEN TrimRight(SubSeq(s, 1, Len(s) - 1)) ELSE s

(* strings.TrimSpace *)
TrimSpace(s) == TrimRight(TrimLeft(s))

(* namePattern.MatchString: ^[A-Za-z_-]{1,64}$ *)
namePattern(s) ==
  /\ Len(s) >= 1
  /\ Len(s) <= NameMaxLen
  /\ \A i \in 1..Len(s) : s[i] \in NameChars

(* names of exactly the longest accepted length, and one character longer *)
LongName(n) == [i \in 1..n |-> "a"]
BoundaryNames == {LongName(NameMaxLen), LongName(NameMaxLen + 1)}

(* validateName that tests the name as given, without trimming it *)
validateName_NoTrim(raw) ==
  LET name == raw
  IN IF name = <<>> THEN [name |-> <<>>, err |-> "ErrEmptySessionName"]
     ELSE IF ~namePattern(name) THEN [name |-> <<>>, err |-> "ErrInvalidSessionName"]
     ELSE [name |-> name, err |-> "nil"]

validateName(raw) ==
  LET name == TrimSpace(raw)
  IN IF name = <<>> THEN [name |-> <<>>, err |-> "ErrEmptySessionName"]
     ELSE IF ~namePattern(name) THEN [name |-> <<>>, err |-> "ErrInvalidSessionName"]
     ELSE [name |-> name, err |-> "nil"]

----------------------------------------------------------------------------
(* The *bbolt.Tx argument of an operation: nil, or the running transaction *)

NilTx == "nil"
LiveTx == "tx"
TxArgs == {NilTx, LiveTx}

(* result of an operation: the store it leaves, the error, the value *)
Ret(st, err, val) == [st |-> st, err |-> err, val |-> val]

NoSession == [ID |-> 0, Name |-> <<>>, Status |-> Active, CreatedAt |-> 0, UpdatedAt |-> 0]
NoWindow == [ID |-> 0, Name |-> <<>>, Index |-> 0, SessionID |-> 0, CreatedAt |-> 0, UpdatedAt |-> 0]
NoPane == [ID |-> 0, SsessionID |-> 0, WindowID |-> 0, Width |-> 0, Height |-> 0,
           X |-> 0, Y |-> 0, Cwd |-> "", CreatedAt |-> 0, UpdatedAt |-> 0]

----------------------------------------------------------------------------
(* session.go *)

sessionWithNameExists(txn, st, raw) ==
  IF txn = NilTx THEN [st |-> st, id |-> 0, exists |-> FALSE, err |-> "ErrTxnNotFound"]
  ELSE LET v == validateName(raw)
       IN IF v.err # "nil" THEN [st |-> st, id |-> 0, exists |-> FALSE, err |-> v.err]
          ELSE IF ~st.sessionB
            THEN [st |-> st, id |-> 0, exists |-> FALSE, err |-> "ErrSessionBucketNotFound"]
          ELSE IF ~st.lookupB
            THEN [st |-> st, id |-> 0, exists |-> FALSE, err |-> "ErrLookupBucketNotFound"]
          ELSE LET sessionId == BucketGet(st.lookup, v.name)
               IN IF sessionId = <<>>
                    THEN [st |-> st, id |-> 0, exists |-> FALSE, err |-> "nil"]
                  ELSE [st |-> st, id |-> sessionId[1], exists |-> TRUE, err |-> "nil"]

GetSession(txn, st, id) ==
  IF txn = NilTx THEN Ret(st, "ErrTxnNotFound", NoSession)
  ELSE IF ~st.sessionB THEN Ret(st, "ErrSessionBucketNotFound", NoSession)
  ELSE LET entry == BucketGet(st.sessions, id)
       IN IF entry = <<>> THEN Ret(st, "ErrSessionNotFound", NoSession)
          ELSE Ret(st, "nil", UnmarshalSession(entry[1]))

(* the records come in the engine's key order *)
RECURSIVE ForEachSession(_, _)
ForEachSession(b, keys) ==
  IF keys = {} THEN <<>>
  ELSE LET k == CHOOSE x \in keys : \A y \in keys : x <= y
       IN <<UnmarshalSession(b[k])>> \o ForEachSession(b, keys \ {k})

GetSessions(txn, st) ==
  IF txn = NilTx THEN Ret(st, "ErrTxnNotFound", <<>>)
  ELSE IF ~st.sessionB THEN Ret(st, "ErrSessionBucketNotFound", <<>>)
  ELSE Ret(st, "nil", ForEachSession(st.sessions, DOMAIN st.sessions))

(* NewSession that indexes the name as the caller gave it, untrimmed *)
NewSession_IndexRawName(txn, st, raw, uid, now1, now2) ==
  IF txn = NilTx THEN Ret(st, "ErrTxnNotFound", NoSession)
  ELSE LET v == validateName(raw)
       IN IF v.err # "nil" THEN Ret(st, v.err, NoSession)
          ELSE LET st1 == EnsureLookupBucket(EnsureSessionBucket(st))
                   ex == sessionWithNameExists(txn, st1, v.name)
               IN IF ex.err # "nil" THEN Ret(ex.st, ex.err, NoSession)
                  ELSE IF ex.exists THEN Ret(ex.st, "ErrSessionAlreadyExists", NoSession)
                  ELSE LET session == [ID |-> uid, Name |-> v.name, Status |-> Inactive,
                                       CreatedAt |-> now1, UpdatedAt |-> now2]
                           st2 == [ex.st EXCEPT
                                     !.sessions = BucketPut(@, session.ID, MarshalSession(session))]
                           st3 == [st2 EXCEPT
                                     !.lookup = BucketPut(@, raw, session.ID)]
                       IN Ret(st3, "nil", session)

(* NewSession that leaves Status at the zero value of its type *)
NewSession_ZeroStatus(txn, st, raw, uid, now1, now2) ==
  IF txn = NilTx THEN Ret(st, "ErrTxnNotFound", NoSession)
  ELSE LET v == validateName(raw)
       IN IF v.err # "nil" THEN Ret(st, v.err, NoSession)
          ELSE LET st1 == EnsureLookupBucket(EnsureSessionBucket(st))
                   ex == sessionWithNameExists(txn, st1, v.name)
               IN IF ex.err # "nil" THEN Ret(ex.st, ex.err, NoSession)
                  ELSE IF ex.exists THEN Ret(ex.st, "ErrSessionAlreadyExists", NoSession)
                  ELSE LET session == [ID |-> uid, Name |-> v.name, Status |-> Active,
                                       CreatedAt |-> now1, UpdatedAt |-> now2]
                           st2 == [ex.st EXCEPT
                                     !.sessions = BucketPut(@, session.ID, MarshalSession(session))]
                           st3 == [st2 EXCEPT
                                     !.lookup = BucketPut(@, session.Name, session.ID)]
                       IN Ret(st3, "nil", session)

NewSession(txn, st, raw, uid, now1, now2) ==
  IF txn = NilTx THEN Ret(st, "ErrTxnNotFound", NoSession)
  ELSE LET v == validateName(raw)
       IN IF v.err # "nil" THEN Ret(st, v.err, NoSession)
          ELSE LET st1 == EnsureLookupBucket(EnsureSessionBucket(st))
                   ex == sessionWithNameExists(txn, st1, v.name)
               IN IF ex.err # "nil" THEN Ret(ex.st, ex.err, NoSession)
                  ELSE IF ex.exists THEN Ret(ex.st, "ErrSessionAlreadyExists", NoSession)
                  ELSE LET session == [ID |-> uid, Name |-> v.name, Status |-> Inactive,
                                       CreatedAt |-> now1, UpdatedAt |-> now2]
                           st2 == [ex.st EXCEPT
                                     !.sessions = BucketPut(@, session.ID, MarshalSession(session))]
                           st3 == [st2 EXCEPT
                                     !.lookup = BucketPut(@, session.Name, session.ID)]
                       IN Ret(st3, "nil", session)

(* UpdateSessionName that leaves the old name in the lookup bucket *)
UpdateSessionName_KeepOldName(txn, st, id, raw, now) ==
  IF txn = NilTx THEN Ret(st, "ErrTxnNotFound", NoSession)
  ELSE LET v == validateName(raw)
       IN IF v.err # "nil" THEN Ret(st, v.err, NoSession)
          ELSE LET st1 == EnsureLookupBucket(EnsureSessionBucket(st))
                   existing == BucketGet(st1.lookup, v.name)
                   old == BucketGet(st1.sessions, id)
               IN IF existing # <<>> /\ existing[1] # id
                    THEN Ret(st1, "ErrSessionAlreadyExists", NoSession)
                  ELSE IF old = <<>> THEN Ret(st1, "ErrSessionNotFound", NoSession)
                  ELSE LET read == UnmarshalSession(old[1])
                           session == [read EXCEPT !.Name = v.name, !.UpdatedAt = now]
                           st2 == [st1 EXCEPT
                                     !.sessions = BucketPut(@, id, MarshalSession(session))]
                           st3 == [st2 EXCEPT
                                     !.lookup = BucketPut(@, session.Name, session.ID)]
                       IN Ret(st3, "nil", session)

UpdateSessionName(txn, st, id, raw, now) ==
  IF txn = NilTx THEN Ret(st, "ErrTxnNotFound", NoSession)
  ELSE LET v == validateName(raw)
       IN IF v.err # "nil" THEN Ret(st, v.err, NoSession)
          ELSE LET st1 == EnsureLookupBucket(EnsureSessionBucket(st))
                   existing == BucketGet(st1.lookup, v.name)
                   old == BucketGet(st1.sessions, id)
               IN IF existing # <<>> /\ existing[1] # id
                    THEN Ret(st1, "ErrSessionAlreadyExists", NoSession)
                  ELSE IF old = <<>> THEN Ret(st1, "ErrSessionNotFound", NoSession)
                  ELSE LET read == UnmarshalSession(old[1])
                           oldName == read.Name
                           session == [read EXCEPT !.Name = v.name, !.UpdatedAt = now]
                           st2 == [st1 EXCEPT
                                     !.sessions = BucketPut(@, id, MarshalSession(session))]
                           st3 == [st2 EXCEPT
                                     !.lookup = BucketPut(@, session.Name, session.ID)]
                           st4 == [st3 EXCEPT !.lookup = BucketDelete(@, oldName)]
                       IN Ret(st4, "nil", session)

(* UpdateSessionStatus without the check for a nil transaction *)
UpdateSessionStatus_NoTxGuard(txn, st, id, status, now) ==
  LET st1 == EnsureSessionBucket(st)
      old == BucketGet(st1.sessions, id)
  IN IF old = <<>> THEN Ret(st1, "ErrSessionNotFound", NoSession)
     ELSE LET read == UnmarshalSession(old[1])
              session == [read EXCEPT !.Status = status, !.UpdatedAt = now]
              st2 == [st1 EXCEPT
                        !.sessions = BucketPut(@, id, MarshalSession(session))]
          IN Ret(st2, "nil", session)

(* UpdateSessionStatus that refuses to leave Terminated *)
UpdateSessionStatus_TerminatedIsFinal(txn, st, id, status, now) ==
  IF txn = NilTx THEN Ret(st, "ErrTxnNotFound", NoSession)
  ELSE LET st1 == EnsureSessionBucket(st)
           old == BucketGet(st1.sessions, id)
       IN IF old = <<>> THEN Ret(st1, "ErrSessionNotFound", NoSession)
          ELSE LET read == UnmarshalSession(old[1])
                   session == [read EXCEPT !.Status = status, !.UpdatedAt = now]
                   st2 == [st1 EXCEPT
                             !.sessions = BucketPut(@, id, MarshalSession(session))]
               IN IF read.Status = Terminated /\ status # Terminated
                    THEN Ret(st1, "ErrInvalidTransition", NoSession)
                  ELSE Ret(st2, "nil", session)

UpdateSessionStatus(txn, st, id, status, now) ==
  IF txn = NilTx THEN Ret(st, "ErrTxnNotFound", NoSession)
  ELSE LET st1 == EnsureSessionBucket(st)
           old == BucketGet(st1.sessions, id)
       IN IF old = <<>> THEN Ret(st1, "ErrSessionNotFound", NoSession)
          ELSE LET read == UnmarshalSession(old[1])
                   session == [read EXCEPT !.Status = status, !.UpdatedAt = now]
                   st2 == [st1 EXCEPT
                             !.sessions = BucketPut(@, id, MarshalSession(session))]
               IN Ret(st2, "nil", session)

----------------------------------------------------------------------------
(* window.go: reads *)

(* GetWindow that finds the window in whichever session's bucket holds it *)
GetWindow_AnySession(txn, st, sessionId, windowId) ==
  IF txn = NilTx THEN Ret(st, "ErrTxnNotFound", NoWindow)
  ELSE LET s == GetSession(txn, st, sessionId)
       IN IF s.err # "nil" THEN Ret(st, s.err, NoWindow)
          ELSE IF ~st.windowB THEN Ret(st, "ErrWindowBucketNotFound", NoWindow)
          ELSE IF s.val.ID \notin DOMAIN st.windows
            THEN Ret(st, "ErrWindowSessionBucketNotFound", NoWindow)
          ELSE LET holders == {b \in DOMAIN st.windows : windowId \in DOMAIN st.windows[b]}
               IN IF holders = {} THEN Ret(st, "ErrWindowNotFound", NoWindow)
                  ELSE Ret(st, "nil",
                           UnmarshalWindow(st.windows[CHOOSE b \in holders : TRUE][windowId]))

GetWindow(txn, st, sessionId, windowId) ==
  IF txn = NilTx THEN Ret(st, "ErrTxnNotFound", NoWindow)
  ELSE LET s == GetSession(txn, st, sessionId)
       IN IF s.err # "nil" THEN Ret(st, s.err, NoWindow)
          ELSE IF ~st.windowB THEN Ret(st, "ErrWindowBucketNotFound", NoWindow)
          ELSE IF s.val.ID \notin DOMAIN st.windows
            THEN Ret(st, "ErrWindowSessionBucketNotFound", NoWindow)
          ELSE LET entry == BucketGet(st.windows[s.val.ID], windowId)
               IN IF entry = <<>> THEN Ret(st, "ErrWindowNotFound", NoWindow)
                  ELSE Ret(st, "nil", UnmarshalWindow(entry[1]))

RECURSIVE ForEachWindow(_, _)
ForEachWindow(b, keys) ==
  IF keys = {} THEN <<>>
  ELSE LET k == CHOOSE x \in keys : \A y \in keys : x <= y
       IN <<UnmarshalWindow(b[k])>> \o ForEachWindow(b, keys \ {k})

(* GetWindows that opens its buckets with CreateBucketIfNotExists *)
GetWindows_EnsureBuckets(txn, st, sessionId) ==
  IF txn = NilTx THEN Ret(st, "ErrTxnNotFound", <<>>)
  ELSE LET s == GetSession(txn, st, sessionId)
       IN IF s.err # "nil" THEN Ret(st, s.err, <<>>)
          ELSE LET st1 == EnsureWindowSessionBucket(EnsureWindowBucket(st), s.val.ID)
               IN Ret(st1, "nil",
                      ForEachWindow(st1.windows[s.val.ID], DOMAIN st1.windows[s.val.ID]))

GetWindows(txn, st, sessionId) ==
  IF txn = NilTx THEN Ret(st, "ErrTxnNotFound", <<>>)
  ELSE LET s == GetSession(txn, st, sessionId)
       IN IF s.err # "nil" THEN Ret(st, s.err, <<>>)
          ELSE IF ~st.windowB THEN Ret(st, "ErrWindowBucketNotFound", <<>>)
          ELSE IF s.val.ID \notin DOMAIN st.windows
            THEN Ret(st, "ErrWindowSessionBucketNotFound", <<>>)
          ELSE Ret(st, "nil",
                   ForEachWindow(st.windows[s.val.ID], DOMAIN st.windows[s.val.ID]))

----------------------------------------------------------------------------
(* pane.go *)

(* GetPane that reports a missing pane with the window's error *)
GetPane_WindowError(txn, st, sessionId, windowId, id) ==
  IF txn = NilTx THEN Ret(st, "ErrTxnNotFound", NoPane)
  ELSE LET w == GetWindow(txn, st, sessionId, windowId)
       IN IF w.err # "nil" THEN Ret(st, w.err, NoPane)
          ELSE IF ~st.paneB THEN Ret(st, "ErrPaneBucketNotFound", NoPane)
          ELSE IF w.val.ID \notin DOMAIN st.panes
            THEN Ret(st, "ErrPaneWindowBucketNotFound", NoPane)
          ELSE LET bytes == BucketGet(st.panes[w.val.ID], id)
               IN IF bytes = <<>> THEN Ret(st, "ErrWindowNotFound", NoPane)
                  ELSE Ret(st, "nil", UnmarshalPane(bytes[1]))

GetPane(txn, st, sessionId, windowId, id) ==
  IF txn = NilTx THEN Ret(st, "ErrTxnNotFound", NoPane)
  ELSE LET w == GetWindow(txn, st, sessionId, windowId)
       IN IF w.err # "nil" THEN Ret(st, w.err, NoPane)
          ELSE IF ~st.paneB THEN Ret(st, "ErrPaneBucketNotFound", NoPane)
          ELSE IF w.val.ID \notin DOMAIN st.panes
            THEN Ret(st, "ErrPaneWindowBucketNotFound", NoPane)
          ELSE LET bytes == BucketGet(st.panes[w.val.ID], id)
               IN IF bytes = <<>> THEN Ret(st, "ErrPaneNotFound", NoPane)
                  ELSE Ret(st, "nil", UnmarshalPane(bytes[1]))

RECURSIVE ForEachPane(_, _)
ForEachPane(b, keys) ==
  IF keys = {} THEN <<>>
  ELSE LET k == CHOOSE x \in keys : \A y \in keys : x <= y
       IN <<UnmarshalPane(b[k])>> \o ForEachPane(b, keys \ {k})

GetPanes(txn, st, sessionId, windowId) ==
  IF txn = NilTx THEN Ret(st, "ErrTxnNotFound", <<>>)
  ELSE LET w == GetWindow(txn, st, sessionId, windowId)
       IN IF w.err # "nil" THEN Ret(st, w.err, <<>>)
          ELSE IF ~st.paneB THEN Ret(st, "ErrPaneBucketNotFound", <<>>)
          ELSE IF w.val.ID \notin DOMAIN st.panes
            THEN Ret(st, "ErrPaneWindowBucketNotFound", <<>>)
          ELSE Ret(st, "nil", ForEachPane(st.panes[w.val.ID], DOMAIN st.panes[w.val.ID]))

(* NewPane that opens the pane buckets before it looks the window up *)
NewPane_BucketsFirst(txn, st, sessionId, windowId, width, height, x, y, cwd, uid, now1, now2) ==
  IF txn = NilTx THEN Ret(st, "ErrTxnNotFound", NoPane)
  ELSE LET st1 == EnsurePaneWindowBucket(EnsurePaneBucket(st), windowId)
           s == GetSession(txn, st1, sessionId)
           w == GetWindow(txn, st1, sessionId, windowId)
       IN IF s.err # "nil" THEN Ret(st1, s.err, NoPane)
          ELSE IF w.err # "nil" THEN Ret(st1, w.err, NoPane)
          ELSE LET pane == [ID |-> uid, SsessionID |-> s.val.ID, WindowID |-> w.val.ID,
                            Width |-> width, Height |-> height, X |-> x, Y |-> y,
                            Cwd |-> cwd, CreatedAt |-> now1, UpdatedAt |-> now2]
                   st2 == [st1 EXCEPT
                             !.panes[w.val.ID] = BucketPut(@, pane.ID, MarshalPane(pane))]
               IN Ret(st2, "nil", pane)

NewPane(txn, st, sessionId, windowId, width, height, x, y, cwd, uid, now1, now2) ==
  IF txn = NilTx THEN Ret(st, "ErrTxnNotFound", NoPane)
  ELSE LET s == GetSession(txn, st, sessionId)
           w == GetWindow(txn, st, sessionId, windowId)
       IN IF s.err # "nil" THEN Ret(st, s.err, NoPane)
          ELSE IF w.err # "nil" THEN Ret(st, w.err, NoPane)
          ELSE LET st1 == EnsurePaneWindowBucket(EnsurePaneBucket(st), w.val.ID)
                   pane == [ID |-> uid, SsessionID |-> s.val.ID, WindowID |-> w.val.ID,
                            Width |-> width, Height |-> height, X |-> x, Y |-> y,
                            Cwd |-> cwd, CreatedAt |-> now1, UpdatedAt |-> now2]
                   st2 == [st1 EXCEPT
                             !.panes[w.val.ID] = BucketPut(@, pane.ID, MarshalPane(pane))]
               IN Ret(st2, "nil", pane)

(* DeletePane that reports a pane that is not there *)
DeletePane_Strict(txn, st, sessionId, windowId, id) ==
  IF txn = NilTx THEN Ret(st, "ErrTxnNotFound", NoPane)
  ELSE LET w == GetWindow(txn, st, sessionId, windowId)
       IN IF w.err # "nil" THEN Ret(st, w.err, NoPane)
          ELSE LET st1 == EnsurePaneWindowBucket(EnsurePaneBucket(st), w.val.ID)
               IN IF id \notin DOMAIN st1.panes[w.val.ID]
                    THEN Ret(st1, "ErrPaneNotFound", NoPane)
                  ELSE Ret([st1 EXCEPT !.panes[w.val.ID] = BucketDelete(@, id)],
                           "nil", NoPane)

DeletePane(txn, st, sessionId, windowId, id) ==
  IF txn = NilTx THEN Ret(st, "ErrTxnNotFound", NoPane)
  ELSE LET w == GetWindow(txn, st, sessionId, windowId)
       IN IF w.err # "nil" THEN Ret(st, w.err, NoPane)
          ELSE LET st1 == EnsurePaneWindowBucket(EnsurePaneBucket(st), w.val.ID)
               IN Ret([st1 EXCEPT !.panes[w.val.ID] = BucketDelete(@, id)], "nil", NoPane)

(* bucket.DeleteBucket reports bbolt's ErrBucketNotFound for a key that is
   not there *)
DeletePanes(txn, st, sessionId, windowId) ==
  IF txn = NilTx THEN Ret(st, "ErrTxnNotFound", NoPane)
  ELSE LET w == GetWindow(txn, st, sessionId, windowId)
       IN IF w.err # "nil" THEN Ret(st, w.err, NoPane)
          ELSE LET st1 == EnsurePaneBucket(st)
               IN IF w.val.ID \notin DOMAIN st1.panes
                    THEN Ret(st1, "ErrBucketNotFound", NoPane)
                  ELSE Ret([st1 EXCEPT !.panes = BucketDelete(@, w.val.ID)], "nil", NoPane)

(* UpdatePaneSize that stamps the creation time as well *)
UpdatePaneSize_TouchCreated(txn, st, sessionId, windowId, id, width, height, now) ==
  LET p == GetPane(txn, st, sessionId, windowId, id)
  IN IF p.err # "nil" THEN Ret(st, p.err, NoPane)
     ELSE LET st1 == EnsurePaneWindowBucket(EnsurePaneBucket(st), windowId)
              pane == [p.val EXCEPT !.Width = width, !.Height = height,
                                    !.CreatedAt = now, !.UpdatedAt = now]
          IN Ret([st1 EXCEPT !.panes[windowId] = BucketPut(@, id, MarshalPane(pane))],
                 "nil", pane)

(* the three updates share their shape: read, ensure the buckets named by the
   windowId argument, change the target fields, write back *)
UpdatePaneSize(txn, st, sessionId, windowId, id, width, height, now) ==
  LET p == GetPane(txn, st, sessionId, windowId, id)
  IN IF p.err # "nil" THEN Ret(st, p.err, NoPane)
     ELSE LET st1 == EnsurePaneWindowBucket(EnsurePaneBucket(st), windowId)
              pane == [p.val EXCEPT !.Width = width, !.Height = height, !.UpdatedAt = now]
          IN Ret([st1 EXCEPT !.panes[windowId] = BucketPut(@, id, MarshalPane(pane))],
                 "nil", pane)

(* UpdatePanePosition that writes a pane built from the arguments alone
   instead of the record read *)
UpdatePanePosition_FreshRecord(txn, st, sessionId, windowId, id, x, y, now) ==
  LET p == GetPane(txn, st, sessionId, windowId, id)
  IN IF p.err # "nil" THEN Ret(st, p.err, NoPane)
     ELSE LET st1 == EnsurePaneWindowBucket(EnsurePaneBucket(st), windowId)
              pane == [NoPane EXCEPT !.ID = id, !.SsessionID = sessionId,
                                     !.WindowID = windowId, !.X = x, !.Y = y,
                                     !.UpdatedAt = now]
          IN Ret([st1 EXCEPT !.panes[windowId] = BucketPut(@, id, MarshalPane(pane))],
                 "nil", pane)

UpdatePanePosition(txn, st, sessionId, windowId, id, x, y, now) ==
  LET p == GetPane(txn, st, sessionId, windowId, id)
  IN IF p.err # "nil" THEN Ret(st, p.err, NoPane)
     ELSE LET st1 == EnsurePaneWindowBucket(EnsurePaneBucket(st), windowId)
              pane == [p.val EXCEPT !.X = x, !.Y = y, !.UpdatedAt = now]
          IN Ret([st1 EXCEPT !.panes[windowId] = BucketPut(@, id, MarshalPane(pane))],
                 "nil", pane)

UpdatePaneCwd(txn, st, sessionId, windowId, id, cwd, now) ==
  LET p == GetPane(txn, st, sessionId, windowId, id)
  IN IF p.err # "nil" THEN Ret(st, p.err, NoPane)
     ELSE LET st1 == EnsurePaneWindowBucket(EnsurePaneBucket(st), windowId)
              pane == [p.val EXCEPT !.Cwd = cwd, !.UpdatedAt = now]
          IN Ret([st1 EXCEPT !.panes[windowId] = BucketPut(@, id, MarshalPane(pane))],
                 "nil", pane)

----------------------------------------------------------------------------
(* window.go: writes *)

(* NewWindow that numbers the window one above the highest index stored *)
NewWindow_NextIndex(txn, st, sessionId, nano, uid, now1, now2) ==
  IF txn = NilTx THEN Ret(st, "ErrTxnNotFound", NoWindow)
  ELSE LET s == GetSession(txn, st, sessionId)
       IN IF s.err # "nil" THEN Ret(st, s.err, NoWindow)
          ELSE LET st1 == EnsureWindowSessionBucket(EnsureWindowBucket(st), s.val.ID)
                   stored == {UnmarshalWindow(st1.windows[s.val.ID][k]).Index :
                                k \in DOMAIN st1.windows[s.val.ID]}
                   index == IF stored = {} THEN 0
                            ELSE 1 + CHOOSE i \in stored : \A j \in stored : j <= i
                   window == [ID |-> uid, Name |-> <<"Window-", nano>>, Index |-> index,
                              SessionID |-> s.val.ID, CreatedAt |-> now1, UpdatedAt |-> now2]
                   st2 == [st1 EXCEPT
                             !.windows[s.val.ID] = BucketPut(@, window.ID, MarshalWindow(window))]
               IN Ret(st2, "nil", window)

NewWindow(txn, st, sessionId, nano, uid, now1, now2) ==
  IF txn = NilTx THEN Ret(st, "ErrTxnNotFound", NoWindow)
  ELSE LET s == GetSession(txn, st, sessionId)
       IN IF s.err # "nil" THEN Ret(st, s.err, NoWindow)
          ELSE LET st1 == EnsureWindowSessionBucket(EnsureWindowBucket(st), s.val.ID)
                   index == StatsKeyN(st1, s.val.ID)
                   window == [ID |-> uid, Name |-> <<"Window-", nano>>, Index |-> index,
                              SessionID |-> s.val.ID, CreatedAt |-> now1, UpdatedAt |-> now2]
                   st2 == [st1 EXCEPT
                             !.windows[s.val.ID] = BucketPut(@, window.ID, MarshalWindow(window))]
               IN Ret(st2, "nil", window)

(* DeleteWindow that also drops the pane bucket of the window *)
DeleteWindow_WithPanes(txn, st, sessionId, windowId) ==
  IF txn = NilTx THEN Ret(st, "ErrTxnNotFound", NoWindow)
  ELSE LET s == GetSession(txn, st, sessionId)
       IN IF s.err # "nil" THEN Ret(st, s.err, NoWindow)
          ELSE LET st1 == EnsureWindowSessionBucket(EnsureWindowBucket(st), s.val.ID)
               IN Ret([st1 EXCEPT !.windows[s.val.ID] = BucketDelete(@, windowId),
                                  !.panes = BucketDelete(@, windowId)],
                      "nil", NoWindow)

DeleteWindow(txn, st, sessionId, windowId) ==
  IF txn = NilTx THEN Ret(st, "ErrTxnNotFound", NoWindow)
  ELSE LET s == GetSession(txn, st, sessionId)
       IN IF s.err # "nil" THEN Ret(st, s.err, NoWindow)
          ELSE LET st1 == EnsureWindowSessionBucket(EnsureWindowBucket(st), s.val.ID)
               IN Ret([st1 EXCEPT !.windows[s.val.ID] = BucketDelete(@, windowId)],
                      "nil", NoWindow)

(* sessionBucket.ForEach of DeleteWindows: the windows in key order, each
   one's panes deleted, stopping at the first error *)
RECURSIVE DeleteWindowsForEach(_, _, _, _, _)
DeleteWindowsForEach(txn, st, sessionId, bucketId, keys) ==
  IF keys = {} THEN Ret(st, "nil", NoWindow)
  ELSE LET k == CHOOSE x \in keys : \A y \in keys : x <= y
           window == UnmarshalWindow(st.windows[bucketId][k])
           d == DeletePanes(txn, st, sessionId, window.ID)
       IN IF d.err # "nil" THEN Ret(d.st, d.err, NoWindow)
          ELSE DeleteWindowsForEach(txn, d.st, sessionId, bucketId, keys \ {k})

DeleteWindows(txn, st, sessionId) ==
  IF txn = NilTx THEN Ret(st, "ErrTxnNotFound", NoWindow)
  ELSE LET s == GetSession(txn, st, sessionId)
       IN IF s.err # "nil" THEN Ret(st, s.err, NoWindow)
          ELSE LET st1 == EnsureWindowSessionBucket(EnsureWindowBucket(st), s.val.ID)
                   each == DeleteWindowsForEach(txn, st1, sessionId, s.val.ID,
                                                DOMAIN st1.windows[s.val.ID])
               IN IF each.err # "nil" THEN Ret(each.st, each.err, NoWindow)
                  ELSE Ret([each.st EXCEPT !.windows = BucketDelete(@, s.val.ID),
                                           !.keyN = BucketDelete(@, s.val.ID)],
                           "nil", NoWindow)

----------------------------------------------------------------------------
(* session.go: delete *)

(* DeleteSession that leaves the session's primary record in place *)
DeleteSession_KeepRecord(txn, st, id) ==
  IF txn = NilTx THEN Ret(st, "ErrTxnNotFound", NoSession)
  ELSE LET st1 == EnsureLookupBucket(EnsureSessionBucket(st))
           s == GetSession(txn, st1, id)
       IN IF s.err # "nil" THEN Ret(st1, s.err, NoSession)
          ELSE LET d == DeleteWindows(txn, st1, s.val.ID)
               IN IF d.err # "nil" THEN Ret(d.st, d.err, NoSession)
                  ELSE Ret([d.st EXCEPT !.lookup = BucketDelete(@, s.val.Name)],
                           "nil", NoSession)

(* DeleteSession that does not cascade to the session's windows *)
DeleteSession_NoCascade(txn, st, id) ==
  IF txn = NilTx THEN Ret(st, "ErrTxnNotFound", NoSession)
  ELSE LET st1 == EnsureLookupBucket(EnsureSessionBucket(st))
           s == GetSession(txn, st1, id)
       IN IF s.err # "nil" THEN Ret(st1, s.err, NoSession)
          ELSE LET st2 == [st1 EXCEPT !.sessions = BucketDelete(@, s.val.ID)]
                   st3 == [st2 EXCEPT !.lookup = BucketDelete(@, s.val.Name)]
               IN Ret(st3, "nil", NoSession)

(* DeleteSession that leaves the session's name in the lookup bucket *)
DeleteSession_KeepIndex(txn, st, id) ==
  IF txn = NilTx THEN Ret(st, "ErrTxnNotFound", NoSession)
  ELSE LET st1 == EnsureLookupBucket(EnsureSessionBucket(st))
           s == GetSession(txn, st1, id)
       IN IF s.err # "nil" THEN Ret(st1, s.err, NoSession)
          ELSE LET d == DeleteWindows(txn, st1, s.val.ID)
               IN IF d.err # "nil" THEN Ret(d.st, d.err, NoSession)
                  ELSE Ret([d.st EXCEPT !.sessions = BucketDelete(@, s.val.ID)],
                           "nil", NoSession)

DeleteSession(txn, st, id) ==
  IF txn = NilTx THEN Ret(st, "ErrTxnNotFound", NoSession)
  ELSE LET st1 == EnsureLookupBucket(EnsureSessionBucket(st))
           s == GetSession(txn, st1, id)
       IN IF s.err # "nil" THEN Ret(st1, s.err, NoSession)
          ELSE LET d == DeleteWindows(txn, st1, s.val.ID)
               IN IF d.err # "nil" THEN Ret(d.st, d.err, NoSession)
                  ELSE LET st2 == [d.st EXCEPT !.sessions = BucketDelete(@, s.val.ID)]
                           st3 == [st2 EXCEPT !.lookup = BucketDelete(@, s.val.Name)]
                       IN Ret(st3, "nil", NoSession)

----------------------------------------------------------------------------
(* The state machine.                                                      *)
(*   tx     the store as the running write transaction sees it (equal to   *)
(*          db while no transaction runs)                                   *)
(*   db     the store as last committed                                     *)
(*   usedS, usedW, usedP  the identifiers uuid.New has handed out           *)
(*   clock  the latest reading of time.Now                                  *)


(* a fresh random identifier; 0 stands for one drawn when the pool of the
   model is used up, which only a call that fails before drawing may meet *)
Fresh(pool, used) == IF pool \ used = {} THEN {0} ELSE pool \ used

(* two successive readings of time.Now; adv is how far the clock may have
   moved since the reading before *)
Readings(adv) ==
  {<<n1, n2>> \in (0..MaxClock) \X (0..MaxClock) :
      clock <= n1 /\ n1 <= n2 /\ n2 <= clock + adv}

Reading(adv) == {n \in 0..MaxClock : clock <= n /\ n <= clock + adv}

(* Where the result of a call lands.  auto: the call is the whole body of a
   db.Update, which commits when the body returns nil and rolls back
   otherwise.  Not auto: the call is one step of a longer transaction that
   Commit or Rollback ends. *)
Land(r, auto) ==
  IF ~auto THEN r.st
  ELSE IF r.err = "nil" THEN Spill(r.st)
  ELSE db

Init ==
  /\ tx = EmptyStore
  /\ db = EmptyStore
  /\ usedS = {}
  /\ usedW = {}
  /\ usedP = {}
  /\ clock = 0

DoNewSession(txn, raw, pool, adv, auto) ==
  \E uid \in Fresh(pool, usedS), now \in Readings(adv) :
    LET r == NewSession(txn, tx, raw, uid, now[1], now[2])
    IN /\ auto => tx = db
       /\ r.err = "nil" => uid # 0
       /\ tx' = Land(r, auto)
       /\ db' = IF auto THEN Land(r, auto) ELSE db
       /\ usedS' = IF r.err = "nil" THEN usedS \cup {uid} ELSE usedS
       /\ clock' = IF r.err = "nil" THEN now[2] ELSE clock
       /\ UNCHANGED <<usedW, usedP>>

DoUpdateSessionName(txn, id, raw, adv, auto) ==
  \E now \in Reading(adv) :
    LET r == UpdateSessionName(txn, tx, id, raw, now)
    IN /\ auto => tx = db
       /\ tx' = Land(r, auto)
       /\ db' = IF auto THEN Land(r, auto) ELSE db
       /\ clock' = IF r.err = "nil" THEN now ELSE clock
       /\ UNCHANGED <<usedS, usedW, usedP>>

DoUpdateSessionStatus(txn, id, status, adv, auto) ==
  \E now \in Reading(adv) :
    LET r == UpdateSessionStatus(txn, tx, id, status, now)
    IN /\ auto => tx = db
       /\ tx' = Land(r, auto)
       /\ db' = IF auto THEN Land(r, auto) ELSE db
       /\ clock' = IF r.err = "nil" THEN now ELSE clock
       /\ UNCHANGED <<usedS, usedW, usedP>>

DoDeleteSession(txn, id, auto) ==
  LET r == DeleteSession(txn, tx, id)
  IN /\ auto => tx = db
     /\ tx' = Land(r, auto)
     /\ db' = IF auto THEN Land(r, auto) ELSE db
     /\ UNCHANGED <<usedS, usedW, usedP, clock>>

DoNewWindow(txn, sessionId, pool, adv, auto) ==
  \E uid \in Fresh(pool, usedW), nano \in NanoIds, now \in Readings(adv) :
    LET r == NewWindow(txn, tx, sessionId, nano, uid, now[1], now[2])
    IN /\ auto => tx = db
       /\ r.err = "nil" => uid # 0
       /\ tx' = Land(r, auto)
       /\ db' = IF auto THEN Land(r, auto) ELSE db
       /\ usedW' = IF r.err = "nil" THEN usedW \cup {uid} ELSE usedW
       /\ clock' = IF r.err = "nil" THEN now[2] ELSE clock
       /\ UNCHANGED <<usedS, usedP>>

DoDeleteWindow(txn, sessionId, windowId, auto) ==
  LET r == DeleteWindow(txn, tx, sessionId, windowId)
  IN /\ auto => tx = db
     /\ tx' = Land(r, auto)
     /\ db' = IF auto THEN Land(r, auto) ELSE db
     /\ UNCHANGED <<usedS, usedW, usedP, clock>>

DoDeleteWindows(txn, sessionId, auto) ==
  LET r == DeleteWindows(txn, tx, sessionId)
  IN /\ auto => tx = db
     /\ tx' = Land(r, auto)
     /\ db' = IF auto THEN Land(r, auto) ELSE db
     /\ UNCHANGED <<usedS, usedW, usedP, clock>>

DoNewPane(txn, sessionId, windowId, dim, pos, cwd, pool, adv, auto) ==
  \E uid \in Fresh(pool, usedP), now \in Readings(adv) :
    LET r == NewPane(txn, tx, sessionId, windowId, dim[1], dim[2], pos[1], pos[2],
                     cwd, uid, now[1], now[2])
    IN /\ auto => tx = db
       /\ r.err = "nil" => uid # 0
       /\ tx' = Land(r, auto)
       /\ db' = IF auto THEN Land(r, auto) ELSE db
       /\ usedP' = IF r.err = "nil" THEN usedP \cup {uid} ELSE usedP
       /\ clock' = IF r.err = "nil" THEN now[2] ELSE clock
       /\ UNCHANGED <<usedS, usedW>>

DoDeletePane(txn, sessionId, windowId, id, auto) ==
  LET r == DeletePane(txn, tx, sessionId, windowId, id)
  IN /\ auto => tx = db
     /\ tx' = Land(r, auto)
     /\ db' = IF auto THEN Land(r, auto) ELSE db
     /\ UNCHANGED <<usedS, usedW, usedP, clock>>

DoDeletePanes(txn, sessionId, windowId, auto) ==
  LET r == DeletePanes(txn, tx, sessionId, windowId)
  IN /\ auto => tx = db
     /\ tx' = Land(r, auto)
     /\ db' = IF auto THEN Land(r, auto) ELSE db
     /\ UNCHANGED <<usedS, usedW, usedP, clock>>

DoUpdatePaneSize(txn, sessionId, windowId, id, dim, adv, auto) ==
  \E now \in Reading(adv) :
    LET r == UpdatePaneSize(txn, tx, sessionId, windowId, id, dim[1], dim[2], now)
    IN /\ auto => tx = db
       /\ tx' = Land(r, auto)
       /\ db' = IF auto THEN Land(r, auto) ELSE db
       /\ clock' = IF r.err = "nil" THEN now ELSE clock
       /\ UNCHANGED <<usedS, usedW, usedP>>

DoUpdatePanePosition(txn, sessionId, windowId, id, pos, adv, auto) ==
  \E now \in Reading(adv) :
    LET r == UpdatePanePosition(txn, tx, sessionId, windowId, id, pos[1], pos[2], now)
    IN /\ auto => tx = db
       /\ tx' = Land(r, auto)
       /\ db' = IF auto THEN Land(r, auto) ELSE db
       /\ clock' = IF r.err = "nil" THEN now ELSE clock
       /\ UNCHANGED <<usedS, usedW, usedP>>

DoUpdatePaneCwd(txn, sessionId, windowId, id, cwd, adv, auto) ==
  \E now \in Reading(adv) :
    LET r == UpdatePaneCwd(txn, tx, sessionId, windowId, id, cwd, now)
    IN /\ auto => tx = db
       /\ tx' = Land(r, auto)
       /\ db' = IF auto THEN Land(r, auto) ELSE db
       /\ clock' = IF r.err = "nil" THEN now ELSE clock
       /\ UNCHANGED <<usedS, usedW, usedP>>

(* Tx.Commit of a longer transaction; the next one begins *)
Commit ==
  /\ db' = Spill(tx)
  /\ tx' = Spill(tx)
  /\ UNCHANGED <<usedS, usedW, usedP, clock>>

(* Tx.Rollback of a longer transaction *)
Rollback ==
  /\ tx' = db
  /\ UNCHANGED <<db, usedS, usedW, usedP, clock>>

----------------------------------------------------------------------------
(* Session Directory: every session operation as one db.Update *)

NextSession ==
  \/ \E raw \in RawNames : DoNewSession(LiveTx, raw, SessionIds, 0, TRUE)
  \/ \E id \in SessionIds, raw \in RawNames : DoUpdateSessionName(LiveTx, id, raw, 0, TRUE)
  \/ \E id \in SessionIds, status \in Statuses :
       DoUpdateSessionStatus(LiveTx, id, status, 0, TRUE)
  \/ \E id \in SessionIds : DoDeleteSession(LiveTx, id, TRUE)

SpecSession == Init /\ [][NextSession]_vars

----------------------------------------------------------------------------
(* The hierarchy: sessions, their windows and the windows' panes, every
   operation as one db.Update *)

NextTree ==
  \/ \E raw \in TreeNames : DoNewSession(LiveTx, raw, TreeSessionIds, 0, TRUE)
  \/ \E id \in TreeSessionIds : DoDeleteSession(LiveTx, id, TRUE)
  \/ \E sid \in TreeSessionIds : DoNewWindow(LiveTx, sid, TreeWindowIds, 0, TRUE)
  \/ \E sid \in TreeSessionIds, wid \in TreeWindowIds : DoDeleteWindow(LiveTx, sid, wid, TRUE)
  \/ \E sid \in TreeSessionIds : DoDeleteWindows(LiveTx, sid, TRUE)
  \/ \E sid \in TreeSessionIds, wid \in TreeWindowIds :
       DoNewPane(LiveTx, sid, wid, <<80, 24>>, <<0, 0>>, "/tmp", TreePaneIds, 0, TRUE)
  \/ \E sid \in TreeSessionIds, wid \in TreeWindowIds, pid \in TreePaneIds :
       DoDeletePane(LiveTx, sid, wid, pid, TRUE)
  \/ \E sid \in TreeSessionIds, wid \in TreeWindowIds : DoDeletePanes(LiveTx, sid, wid, TRUE)

SpecTree == Init /\ [][NextTree]_vars

----------------------------------------------------------------------------
(* Window Store inside longer transactions *)

NextWindow ==
  \/ \E raw \in RawNames : DoNewSession(LiveTx, raw, {1}, 0, FALSE)
  \/ \E sid \in SessionIds : DoNewWindow(LiveTx, sid, WindowIds, 0, FALSE)
  \/ \E sid \in SessionIds, wid \in WindowIds : DoDeleteWindow(LiveTx, sid, wid, FALSE)
  \/ Commit
  \/ Rollback

SpecWindow == Init /\ [][NextWindow]_vars

----------------------------------------------------------------------------
(* The Session Directory while time passes: the clock may have moved on at
   each reading of time.Now *)

NextClock ==
  \/ \E raw \in TreeNames : DoNewSession(LiveTx, raw, SessionIds, 1, TRUE)
  \/ \E id \in SessionIds, raw \in TreeNames : DoUpdateSessionName(LiveTx, id, raw, 1, TRUE)
  \/ \E id \in SessionIds, status \in Statuses :
       DoUpdateSessionStatus(LiveTx, id, status, 1, TRUE)
  \/ \E id \in SessionIds : DoDeleteSession(LiveTx, id, TRUE)

SpecClock == Init /\ [][NextClock]_vars

----------------------------------------------------------------------------
(* The Pane Store: panes created under the window of a session and updated
   in place, the clock moving on between updates *)

NextPane ==
  \/ DoNewSession(LiveTx, <<"a">>, {1}, 0, TRUE)
  \/ DoNewWindow(LiveTx, 1, {1}, 0, TRUE)
  \/ DoNewPane(LiveTx, 1, 1, <<80, 24>>, <<0, 0>>, "/tmp", PaneIds, 0, TRUE)
  \/ \E pid \in PaneIds, dim \in Dims : DoUpdatePaneSize(LiveTx, 1, 1, pid, dim, 1, TRUE)
  \/ \E pid \in PaneIds, pos \in Positions :
       DoUpdatePanePosition(LiveTx, 1, 1, pid, pos, 1, TRUE)
  \/ \E pid \in PaneIds, cwd \in Cwds : DoUpdatePaneCwd(LiveTx, 1, 1, pid, cwd, 1, TRUE)

SpecPane == Init /\ [][NextPane]_vars

----------------------------------------------------------------------------
(* The life of the records of one session, its window and the window's
   panes: created, updated in place while the clock moves on, and deleted *)

NextIdentity ==
  \/ \E raw \in TreeNames : DoNewSession(LiveTx, raw, {1}, 1, TRUE)
  \/ \E raw \in TreeNames : DoUpdateSessionName(LiveTx, 1, raw, 1, TRUE)
  \/ DoUpdateSessionStatus(LiveTx, 1, Terminated, 1, TRUE)
  \/ DoDeleteSession(LiveTx, 1, TRUE)
  \/ DoNewWindow(LiveTx, 1, {1}, 1, TRUE)
  \/ DoDeleteWindow(LiveTx, 1, 1, TRUE)
  \/ DoNewPane(LiveTx, 1, 1, <<80, 24>>, <<0, 0>>, "/tmp", PaneIds, 1, TRUE)
  \/ \E pid \in PaneIds : DoUpdatePaneSize(LiveTx, 1, 1, pid, <<120, 40>>, 1, TRUE)
  \/ \E pid \in PaneIds : DoDeletePane(LiveTx, 1, 1, pid, TRUE)

SpecIdentity == Init /\ [][NextIdentity]_vars

----------------------------------------------------------------------------
(* The windows of one session, created and deleted one db.Update each *)

IndexWindowIds == 1..(MaxWindows + 1)

NextIndex ==
  \/ DoNewSession(LiveTx, <<"a">>, {1}, 0, TRUE)
  \/ DoNewWindow(LiveTx, 1, IndexWindowIds, 0, TRUE)
  \/ \E wid \in IndexWindowIds : DoDeleteWindow(LiveTx, 1, wid, TRUE)

SpecIndex == Init /\ [][NextIndex]_vars

----------------------------------------------------------------------------
(* Vocabulary of the properties *)

NotFoundErrs == {"ErrSessionNotFound", "ErrWindowNotFound", "ErrPaneNotFound"}

(* the errors that report a bucket that is not there *)
NamespaceMissingErrs ==
  {"ErrSessionBucketNotFound", "ErrLookupBucketNotFound", "ErrWindowBucketNotFound",
   "ErrWindowSessionBucketNotFound", "ErrPaneBucketNotFound",
   "ErrPaneWindowBucketNotFound"}

(* the sessions whose record carries the name *)
Holders(st, name) == {j \in DOMAIN st.sessions : UnmarshalSession(st.sessions[j]).Name = name}

(* the windows recorded under a session, the panes recorded under a window *)
WindowsOf(st, sid) == IF sid \in DOMAIN st.windows THEN DOMAIN st.windows[sid] ELSE {}
PanesOf(st, wid) == IF wid \in DOMAIN st.panes THEN DOMAIN st.panes[wid] ELSE {}

SameRecords(a, b) ==
  /\ a.sessions = b.sessions
  /\ a.lookup = b.lookup
  /\ a.windows = b.windows
  /\ a.panes = b.panes

(* what a record is identified by: its id, its parents and its creation time *)
SessionIdentity(e) == <<e.ID, e.CreatedAt>>
WindowIdentity(e) == <<e.ID, e.SessionID, e.CreatedAt>>
PaneIdentity(e) == <<e.ID, e.SsessionID, e.WindowID, e.CreatedAt>>

(* every record of store a that store b still holds has kept its identity,
   and store b holds each record under the key that is its id *)
IdentityKept(a, b) ==
  /\ \A k \in DOMAIN b.sessions :
       /\ UnmarshalSession(b.sessions[k]).ID = k
       /\ k \in DOMAIN a.sessions =>
            SessionIdentity(UnmarshalSession(b.sessions[k])) =
              SessionIdentity(UnmarshalSession(a.sessions[k]))
  /\ \A s \in DOMAIN b.windows : \A k \in DOMAIN b.windows[s] :
       /\ UnmarshalWindow(b.windows[s][k]).ID = k
       /\ k \in WindowsOf(a, s) =>
            WindowIdentity(UnmarshalWindow(b.windows[s][k])) =
              WindowIdentity(UnmarshalWindow(a.windows[s][k]))
  /\ \A w \in DOMAIN b.panes : \A k \in DOMAIN b.panes[w] :
       /\ UnmarshalPane(b.panes[w][k]).ID = k
       /\ k \in PanesOf(a, w) =>
            PaneIdentity(UnmarshalPane(b.panes[w][k])) =
              PaneIdentity(UnmarshalPane(a.panes[w][k]))

(* the records a store holds, whatever empty buckets it has beside them *)
StoredRecords(st) ==
  [sessions |-> st.sessions,
   lookup |-> st.lookup,
   windows |-> UNION {{<<s, k, st.windows[s][k]>> : k \in DOMAIN st.windows[s]} :
                        s \in DOMAIN st.windows},
   panes |-> UNION {{<<w, k, st.panes[w][k]>> : k \in DOMAIN st.panes[w]} :
                      w \in DOMAIN st.panes}]

----------------------------------------------------------------------------
(* C1 - Name uniqueness: in every store state reached by NewSession,
   UpdateSessionName, UpdateSessionStatus and DeleteSession calls, no two
   session records carry the same name. *)
NameUniqueness ==
  \A i \in DOMAIN tx.sessions, j \in DOMAIN tx.sessions :
    i # j => UnmarshalSession(tx.sessions[i]).Name # UnmarshalSession(tx.sessions[j]).Name

(* C2 - Cascade delete: after a successful DeleteSession(S), GetSession(S),
   GetWindow(S, W) for every window W that belonged to S and GetPane(S, W, P)
   for every pane P of those windows all fail with a NotFound error. *)
CascadeDelete ==
  \A s \in TreeSessionIds :
    LET r == DeleteSession(LiveTx, tx, s)
    IN r.err = "nil" =>
         /\ GetSession(LiveTx, r.st, s).err = "ErrSessionNotFound"
         /\ \A w \in WindowsOf(tx, s) :
              /\ GetWindow(LiveTx, r.st, s, w).err \in NotFoundErrs
              /\ \A p \in PanesOf(tx, w) :
                   GetPane(LiveTx, r.st, s, w, p).err \in NotFoundErrs

(* a session with a window that holds two panes, whose delete succeeds *)
CascadeDeleteWitness ==
  \E s \in DOMAIN tx.sessions :
    /\ DeleteSession(LiveTx, tx, s).err = "nil"
    /\ \E w \in WindowsOf(tx, s) : Cardinality(PanesOf(tx, w)) >= 2

(* C3 - DeleteSession returns an error only when the id has no session
   record, and then it is NotFound; for every existing session, whatever
   windows and panes it holds, it succeeds and removes the session. *)
DeleteSessionFailsOnlyNotFound ==
  \A s \in TreeSessionIds :
    LET r == DeleteSession(LiveTx, tx, s)
    IN IF s \in DOMAIN tx.sessions
       THEN r.err = "nil" /\ s \notin DOMAIN r.st.sessions
       ELSE r.err = "ErrSessionNotFound"

(* C4 - Rename atomicity: after a successful UpdateSessionName(id, new) with
   new different from the current name old, the record's name is new, new
   resolves to id in the name index and old resolves to nothing. *)
RenameAtomicity ==
  \A id \in SessionIds, raw \in RawNames :
    LET r == UpdateSessionName(LiveTx, tx, id, raw, clock)
        new == validateName(raw).name
    IN (r.err = "nil" /\ UnmarshalSession(tx.sessions[id]).Name # new) =>
         LET old == UnmarshalSession(tx.sessions[id]).Name
         IN /\ GetSession(LiveTx, r.st, id).val.Name = new
            /\ sessionWithNameExists(LiveTx, r.st, new) =
                 [st |-> r.st, id |-> id, exists |-> TRUE, err |-> "nil"]
            /\ sessionWithNameExists(LiveTx, r.st, old) =
                 [st |-> r.st, id |-> 0, exists |-> FALSE, err |-> "nil"]

(* a session is renamed to another name, while a second session exists *)
RenameAtomicityWitness ==
  \E id \in DOMAIN tx.sessions, raw \in RawNames :
    /\ UpdateSessionName(LiveTx, tx, id, raw, clock).err = "nil"
    /\ UnmarshalSession(tx.sessions[id]).Name # validateName(raw).name
    /\ sessionWithNameExists(LiveTx, tx, UnmarshalSession(tx.sessions[id]).Name).exists
    /\ Cardinality(DOMAIN tx.sessions) = 2

(* C5 - Renaming a session to its own current name n succeeds and leaves the
   record named n and the name index resolving n to the session. *)
RenameToOwnNameIdempotent ==
  \A id \in DOMAIN tx.sessions :
    LET n == UnmarshalSession(tx.sessions[id]).Name
        r == UpdateSessionName(LiveTx, tx, id, n, clock)
    IN /\ r.err = "nil"
       /\ GetSession(LiveTx, r.st, id).val.Name = n
       /\ sessionWithNameExists(LiveTx, r.st, n) =
            [st |-> r.st, id |-> id, exists |-> TRUE, err |-> "nil"]

(* C6 - Name collision is rejected without side effects: NewSession(n), and
   UpdateSessionName(id, n), with n held by a different existing session,
   fail with ErrSessionAlreadyExists and leave every record and index entry
   as it was. *)
NameCollisionRejected ==
  \A raw \in RawNames :
    LET v == validateName(raw)
    IN v.err = "nil" =>
         /\ Holders(tx, v.name) # {} =>
              \A uid \in Fresh(SessionIds, usedS) :
                LET r == NewSession(LiveTx, tx, raw, uid, clock, clock)
                IN r.err = "ErrSessionAlreadyExists" /\ SameRecords(r.st, tx)
         /\ \A id \in SessionIds :
              Holders(tx, v.name) \ {id} # {} =>
                LET r == UpdateSessionName(LiveTx, tx, id, raw, clock)
                IN r.err = "ErrSessionAlreadyExists" /\ SameRecords(r.st, tx)

(* C7 - Index completeness: each session record with id i and name n has the
   name-index entry n -> i. *)
IndexCompleteness ==
  \A i \in DOMAIN tx.sessions :
    sessionWithNameExists(LiveTx, tx, UnmarshalSession(tx.sessions[i]).Name) =
      [st |-> tx, id |-> i, exists |-> TRUE, err |-> "nil"]

(* C8 - Pane parent invariant: each stored pane record's window has a window
   record under the pane's session, and that session has a session record. *)
PaneParentInvariant ==
  \A w \in DOMAIN tx.panes : \A p \in DOMAIN tx.panes[w] :
    LET pane == UnmarshalPane(tx.panes[w][p])
    IN /\ GetSession(LiveTx, tx, pane.SsessionID).err = "nil"
       /\ GetWindow(LiveTx, tx, pane.SsessionID, pane.WindowID).err = "nil"

(* C9 - Window parent invariant: each stored window record's sessionId refers
   to an existing session record, and the window is stored in that session's
   namespace. *)
WindowParentInvariant ==
  \A s \in DOMAIN tx.windows : \A w \in DOMAIN tx.windows[s] :
    LET window == UnmarshalWindow(tx.windows[s][w])
    IN /\ window.SessionID = s
       /\ GetSession(LiveTx, tx, window.SessionID).err = "nil"
       /\ GetWindow(LiveTx, tx, window.SessionID, w).val = window

(* a session that had been created is deleted, windows were removed, and
   another session still has a window *)
WindowParentWitness ==
  /\ usedS \ DOMAIN tx.sessions # {}
  /\ \E s \in DOMAIN tx.sessions : WindowsOf(tx, s) # {}
  /\ \E w \in usedW : \A s \in DOMAIN tx.windows : w \notin DOMAIN tx.windows[s]

(* C10 - Sequential window indices: NewWindow(S) assigns the number of window
   records stored under S at the moment of the call, windows created earlier
   in the same transaction counted. *)
SequentialWindowIndices ==
  \A s \in SessionIds, uid \in Fresh(WindowIds, usedW), nano \in NanoIds :
    LET r == NewWindow(LiveTx, tx, s, nano, uid, clock, clock)
    IN r.err = "nil" => r.val.Index = Cardinality(WindowsOf(tx, s))

(* C11 - Orphan creation rejected, as stated: NewPane(S, W, ...) where W has
   no window record under S, and NewWindow(S) where S has no session record,
   fail with a NotFound error and leave the transaction's store, buckets
   included, exactly as it was. *)
OrphanCreationRejected ==
  /\ \A s \in TreeSessionIds \ DOMAIN tx.sessions :
       \A uid \in Fresh(TreeWindowIds, usedW), nano \in NanoIds :
         LET r == NewWindow(LiveTx, tx, s, nano, uid, clock, clock)
         IN r.err \in NotFoundErrs /\ r.st = tx
  /\ \A s \in TreeSessionIds, w \in TreeWindowIds :
       (s \notin DOMAIN tx.sessions \/ w \notin WindowsOf(tx, s)) =>
         \A uid \in Fresh(TreePaneIds, usedP) :
           LET r == NewPane(LiveTx, tx, s, w, 80, 24, 0, 0, "/tmp", uid, clock, clock)
           IN r.err \in NotFoundErrs /\ r.st = tx

(* C11 - Orphan creation rejected, amended: the same calls fail, with a
   NotFound error when the bucket that would hold the parent's record
   exists and with a bucket-not-found error when it does not, and leave the
   transaction's store, buckets included, exactly as it was. *)
OrphanCreationRejectedOrNamespaceMissing ==
  /\ \A s \in TreeSessionIds \ DOMAIN tx.sessions :
       \A uid \in Fresh(TreeWindowIds, usedW), nano \in NanoIds :
         LET r == NewWindow(LiveTx, tx, s, nano, uid, clock, clock)
         IN /\ r.err = IF tx.sessionB THEN "ErrSessionNotFound"
                       ELSE "ErrSessionBucketNotFound"
            /\ r.st = tx
  /\ \A s \in TreeSessionIds, w \in TreeWindowIds :
       (s \notin DOMAIN tx.sessions \/ w \notin WindowsOf(tx, s)) =>
         \A uid \in Fresh(TreePaneIds, usedP) :
           LET r == NewPane(LiveTx, tx, s, w, 80, 24, 0, 0, "/tmp", uid, clock, clock)
               held == /\ tx.sessionB
                       /\ s \in DOMAIN tx.sessions => (tx.windowB /\ s \in DOMAIN tx.windows)
           IN /\ r.err \in NotFoundErrs \cup NamespaceMissingErrs
              /\ held <=> r.err \in NotFoundErrs
              /\ r.st = tx

(* a pane is asked for under a window that was deleted from a live session
   which still has its window bucket, and under a session that was deleted *)
OrphanCreationWitness ==
  /\ \E s \in DOMAIN tx.sessions : \E w \in usedW \ WindowsOf(tx, s) :
       NewPane(LiveTx, tx, s, w, 80, 24, 0, 0, "/tmp", 0, clock, clock).err
         = "ErrWindowNotFound"
  /\ \E s \in usedS \ DOMAIN tx.sessions :
       NewWindow(LiveTx, tx, s, "AbCdEfGh", 0, clock, clock).err = "ErrSessionNotFound"

(* C12 - Missing transaction: each exported operation of the session, window
   and pane stores, called with a nil transaction, returns ErrTxnNotFound and
   leaves the store as it was, whatever the store holds and whatever the
   other arguments are. *)
MissingTransaction ==
  LET Refused(r) == r.err = "ErrTxnNotFound" /\ r.st = tx
  IN /\ Refused(GetSessions(NilTx, tx))
     /\ \A raw \in TreeNames : \A uid \in Fresh(TreeSessionIds, usedS) :
          Refused(NewSession(NilTx, tx, raw, uid, clock, clock))
     /\ \A s \in TreeSessionIds :
          /\ Refused(GetSession(NilTx, tx, s))
          /\ \A raw \in TreeNames : Refused(UpdateSessionName(NilTx, tx, s, raw, clock))
          /\ \A status \in Statuses :
               Refused(UpdateSessionStatus(NilTx, tx, s, status, clock))
          /\ Refused(DeleteSession(NilTx, tx, s))
          /\ \A uid \in Fresh(TreeWindowIds, usedW), nano \in NanoIds :
               Refused(NewWindow(NilTx, tx, s, nano, uid, clock, clock))
          /\ Refused(GetWindows(NilTx, tx, s))
          /\ Refused(DeleteWindows(NilTx, tx, s))
          /\ \A w \in TreeWindowIds :
               /\ Refused(GetWindow(NilTx, tx, s, w))
               /\ Refused(DeleteWindow(NilTx, tx, s, w))
               /\ \A uid \in Fresh(TreePaneIds, usedP) :
                    Refused(NewPane(NilTx, tx, s, w, 80, 24, 0, 0, "/tmp", uid, clock, clock))
               /\ Refused(GetPanes(NilTx, tx, s, w))
               /\ Refused(DeletePanes(NilTx, tx, s, w))
               /\ \A p \in TreePaneIds :
                    /\ Refused(GetPane(NilTx, tx, s, w, p))
                    /\ Refused(DeletePane(NilTx, tx, s, w, p))
                    /\ Refused(UpdatePaneSize(NilTx, tx, s, w, p, 120, 40, clock))
                    /\ Refused(UpdatePanePosition(NilTx, tx, s, w, p, 1, 1, clock))
                    /\ Refused(UpdatePaneCwd(NilTx, tx, s, w, p, "/home", clock))

(* a session, a window and a pane on which the operations succeed inside a
   transaction and are refused without one *)
MissingTransactionWitness ==
  \E s \in DOMAIN tx.sessions : \E w \in WindowsOf(tx, s) : \E p \in PanesOf(tx, w) :
    /\ UpdatePaneSize(LiveTx, tx, s, w, p, 120, 40, clock).err = "nil"
    /\ UpdatePaneSize(NilTx, tx, s, w, p, 120, 40, clock).err = "ErrTxnNotFound"
    /\ UpdateSessionStatus(LiveTx, tx, s, Terminated, clock).err = "nil"
    /\ UpdateSessionStatus(NilTx, tx, s, Terminated, clock).err = "ErrTxnNotFound"
    /\ DeleteSession(LiveTx, tx, s).err = "nil"
    /\ DeleteSession(NilTx, tx, s).err = "ErrTxnNotFound"

(* C13 - Invalid name rejected: NewSession(name) and UpdateSessionName(id,
   name) fail with ErrEmptySessionName when name is empty once its leading
   and trailing whitespace is removed, and with ErrInvalidSessionName when
   what remains is not 1 to 64 letters, underscores and hyphens; no session
   record or index entry is created or changed. *)
InvalidNameRejected ==
  \A raw \in RawNames \cup BoundaryNames :
    LET blank == \A i \in 1..Len(raw) : raw[i] \in WhiteSpace
        first == CHOOSE i \in 1..Len(raw) : raw[i] \notin WhiteSpace
                   /\ \A j \in 1..(i - 1) : raw[j] \in WhiteSpace
        last == CHOOSE i \in 1..Len(raw) : raw[i] \notin WhiteSpace
                   /\ \A j \in (i + 1)..Len(raw) : raw[j] \in WhiteSpace
        matches == /\ last - first + 1 <= 64
                   /\ \A i \in first..last : raw[i] \in NameChars
        expected == IF blank THEN "ErrEmptySessionName"
                    ELSE IF ~matches THEN "ErrInvalidSessionName"
                    ELSE "nil"
    IN expected # "nil" =>
         /\ \A uid \in Fresh(SessionIds, usedS) :
              LET r == NewSession(LiveTx, tx, raw, uid, clock, clock)
              IN r.err = expected /\ SameRecords(r.st, tx)
         /\ \A id \in SessionIds :
              LET r == UpdateSessionName(LiveTx, tx, id, raw, clock)
              IN r.err = expected /\ SameRecords(r.st, tx)

(* a stored session that accepts a new name, also one followed by a vertical
   tab, and for which a name of blanks, one of a vertical tab and a blank, a
   name with a digit and a name of 65 letters are refused *)
InvalidNameWitness ==
  \E id \in DOMAIN tx.sessions :
    /\ UpdateSessionName(LiveTx, tx, id, <<" ", "a">>, clock).err = "nil"
    /\ UpdateSessionName(LiveTx, tx, id, LongName(NameMaxLen), clock).err = "nil"
    /\ UpdateSessionName(LiveTx, tx, id, <<"a", "U+000B">>, clock).err = "nil"
    /\ UpdateSessionName(LiveTx, tx, id, <<" ", " ">>, clock).err = "ErrEmptySessionName"
    /\ UpdateSessionName(LiveTx, tx, id, <<"U+000B", " ">>, clock).err
         = "ErrEmptySessionName"
    /\ UpdateSessionName(LiveTx, tx, id, <<"a", "1">>, clock).err = "ErrInvalidSessionName"
    /\ UpdateSessionName(LiveTx, tx, id, LongName(NameMaxLen + 1), clock).err
         = "ErrInvalidSessionName"

(* C14 - Create/Get round trip: when NewSession(n) succeeds, GetSession of
   the returned id yields a record with that id, with the name given (n
   itself when n is a valid name, n without its surrounding whitespace
   otherwise) and with status Inactive. *)
CreateGetRoundTrip ==
  \A raw \in RawNames \cup BoundaryNames : \A uid \in Fresh(SessionIds, usedS) \ {0} :
    LET r == NewSession(LiveTx, tx, raw, uid, clock, clock)
        g == GetSession(LiveTx, r.st, r.val.ID)
    IN r.err = "nil" =>
         /\ r.val.ID = uid
         /\ g.err = "nil"
         /\ g.val.ID = r.val.ID
         /\ g.val.Name = TrimSpace(raw)
         /\ (\A i \in 1..Len(raw) : raw[i] \in NameChars) => g.val.Name = raw
         /\ g.val.Status = Inactive

(* beside a stored session, a second one is created under a name given with
   a leading blank, one under a name given with a leading vertical tab, and
   one under a name of 64 letters *)
CreateGetWitness ==
  /\ DOMAIN tx.sessions # {}
  /\ \E uid \in Fresh(SessionIds, usedS) \ {0} :
       /\ NewSession(LiveTx, tx, <<" ", "a">>, uid, clock, clock).err = "nil"
       /\ NewSession(LiveTx, tx, <<"U+000B", "a">>, uid, clock, clock).val.Name = <<"a">>
       /\ NewSession(LiveTx, tx, LongName(NameMaxLen), uid, clock, clock).err = "nil"

(* C15 - Creation timestamps coincide: the record a successful NewSession
   stores, read back by GetSession before any update, has createdAt equal
   to updatedAt, each reading of the clock being free to return a later time
   than the reading before. *)
CreationTimestampsCoincide ==
  [][\A id \in DOMAIN tx'.sessions \ DOMAIN tx.sessions :
       LET g == GetSession(LiveTx, tx', id)
       IN g.err = "nil" /\ g.val.CreatedAt = g.val.UpdatedAt]_vars

(* C16 - Pane updates touch only their target: on an existing pane,
   UpdatePaneSize changes width and height, UpdatePanePosition x and y,
   UpdatePaneCwd cwd, each also updatedAt, and nothing else in the store;
   after the three in a row GetPane returns the values written last. *)
PaneUpdatesTouchOnlyTarget ==
  \A p \in PanesOf(tx, 1) : \A dim \in Dims, pos \in Positions, cwd \in Cwds :
    \A now \in Reading(1) :
      LET old == GetPane(LiveTx, tx, 1, 1, p).val
          Rest(st) == [st EXCEPT !.panes[1] = BucketDelete(@, p)]
          a == UpdatePaneSize(LiveTx, tx, 1, 1, p, dim[1], dim[2], now)
          b == UpdatePanePosition(LiveTx, tx, 1, 1, p, pos[1], pos[2], now)
          c == UpdatePaneCwd(LiveTx, tx, 1, 1, p, cwd, now)
          abc == UpdatePaneCwd(LiveTx,
                   UpdatePanePosition(LiveTx, a.st, 1, 1, p, pos[1], pos[2], now).st,
                   1, 1, p, cwd, now)
      IN /\ a.err = "nil" /\ b.err = "nil" /\ c.err = "nil" /\ abc.err = "nil"
         /\ Rest(a.st) = Rest(tx) /\ Rest(b.st) = Rest(tx) /\ Rest(c.st) = Rest(tx)
         /\ Rest(abc.st) = Rest(tx)
         /\ GetPane(LiveTx, a.st, 1, 1, p).val =
              [old EXCEPT !.Width = dim[1], !.Height = dim[2], !.UpdatedAt = now]
         /\ GetPane(LiveTx, b.st, 1, 1, p).val =
              [old EXCEPT !.X = pos[1], !.Y = pos[2], !.UpdatedAt = now]
         /\ GetPane(LiveTx, c.st, 1, 1, p).val = [old EXCEPT !.Cwd = cwd, !.UpdatedAt = now]
         /\ GetPane(LiveTx, abc.st, 1, 1, p).val =
              [old EXCEPT !.Width = dim[1], !.Height = dim[2], !.X = pos[1], !.Y = pos[2],
                          !.Cwd = cwd, !.UpdatedAt = now]

(* two panes, one already resized, moved and re-rooted at a later time; an
   update of the other one succeeds *)
PaneUpdatesWitness ==
  \E p \in PanesOf(tx, 1), q \in PanesOf(tx, 1) :
    LET pane == GetPane(LiveTx, tx, 1, 1, p).val
    IN /\ p # q
       /\ pane.Width = 120 /\ pane.X = 5 /\ pane.Cwd = "/home"
       /\ pane.UpdatedAt > pane.CreatedAt
       /\ UpdatePaneSize(LiveTx, tx, 1, 1, q, 120, 40, clock).err = "nil"

(* C17 - Lookup of an absent record yields NotFound, as stated: in every
   reachable store, GetSession(id) with no session record fails with
   ErrSessionNotFound, GetWindow(S, w) for an existing session S with no
   window record w with ErrWindowNotFound, and GetPane(S, W, p) for an
   existing window W with no pane record p with ErrPaneNotFound. *)
AbsentLookupNotFound ==
  /\ \A s \in TreeSessionIds \ DOMAIN tx.sessions :
       GetSession(LiveTx, tx, s).err = "ErrSessionNotFound"
  /\ \A s \in DOMAIN tx.sessions :
       /\ \A w \in TreeWindowIds \ WindowsOf(tx, s) :
            GetWindow(LiveTx, tx, s, w).err = "ErrWindowNotFound"
       /\ \A w \in WindowsOf(tx, s) : \A p \in TreePaneIds \ PanesOf(tx, w) :
            GetPane(LiveTx, tx, s, w, p).err = "ErrPaneNotFound"

(* C17 - Lookup of an absent record, amended: the same lookups fail with the
   entity's NotFound error when the bucket that would hold the record
   exists, and with that bucket's not-found error when it does not. *)
AbsentLookupNotFoundOrNamespaceMissing ==
  /\ \A s \in TreeSessionIds \ DOMAIN tx.sessions :
       GetSession(LiveTx, tx, s).err =
         IF tx.sessionB THEN "ErrSessionNotFound" ELSE "ErrSessionBucketNotFound"
  /\ \A s \in DOMAIN tx.sessions :
       /\ \A w \in TreeWindowIds \ WindowsOf(tx, s) :
            GetWindow(LiveTx, tx, s, w).err =
              IF ~tx.windowB THEN "ErrWindowBucketNotFound"
              ELSE IF s \notin DOMAIN tx.windows THEN "ErrWindowSessionBucketNotFound"
              ELSE "ErrWindowNotFound"
       /\ \A w \in WindowsOf(tx, s) : \A p \in TreePaneIds \ PanesOf(tx, w) :
            GetPane(LiveTx, tx, s, w, p).err =
              IF ~tx.paneB THEN "ErrPaneBucketNotFound"
              ELSE IF w \notin DOMAIN tx.panes THEN "ErrPaneWindowBucketNotFound"
              ELSE "ErrPaneNotFound"

(* a session was deleted; the live one has a window that has lost a pane
   and a window that never had one *)
AbsentLookupWitness ==
  /\ \E s \in usedS : GetSession(LiveTx, tx, s).err = "ErrSessionNotFound"
  /\ \E s \in DOMAIN tx.sessions : \E w \in WindowsOf(tx, s), v \in WindowsOf(tx, s) :
       /\ \E p \in usedP : GetPane(LiveTx, tx, s, w, p).err = "ErrPaneNotFound"
       /\ \E p \in TreePaneIds :
            GetPane(LiveTx, tx, s, v, p).err = "ErrPaneWindowBucketNotFound"

(* C18 - Single-window delete does not cascade: DeleteWindow(S, W) on a
   stored window W of S succeeds and removes the record of W; the pane
   records stored for W, the other window records of S with their indices,
   the windows of other sessions, the session records and the name index
   stay as they were. *)
SingleWindowDeleteNoCascade ==
  \A s \in DOMAIN tx.sessions : \A w \in WindowsOf(tx, s) :
    LET r == DeleteWindow(LiveTx, tx, s, w)
    IN /\ r.err = "nil"
       /\ GetWindow(LiveTx, r.st, s, w).err = "ErrWindowNotFound"
       /\ r.st.panes = tx.panes
       /\ r.st.sessions = tx.sessions
       /\ r.st.lookup = tx.lookup
       /\ DOMAIN r.st.windows = DOMAIN tx.windows
       /\ \A s2 \in DOMAIN tx.windows : \A w2 \in DOMAIN tx.windows[s2] :
            <<s2, w2>> # <<s, w>> =>
              /\ w2 \in DOMAIN r.st.windows[s2]
              /\ r.st.windows[s2][w2] = tx.windows[s2][w2]
       /\ WindowsOf(r.st, s) = WindowsOf(tx, s) \ {w}

(* a session with two windows, the one to delete holding a pane *)
SingleWindowDeleteWitness ==
  \E s \in DOMAIN tx.sessions : \E w \in WindowsOf(tx, s) :
    /\ WindowsOf(tx, s) \ {w} # {}
    /\ PanesOf(tx, w) # {}
    /\ DeleteWindow(LiveTx, tx, s, w).err = "nil"

(* C19 - No partial writes on failure: an operation that returns an error
   leaves every session, window and pane record and every name-index entry
   of the transaction it ran in as it found them; in particular a
   DeleteSession that fails in its cascade has deleted nothing. *)
NoPartialWrites ==
  LET Clean(r) == r.err # "nil" => SameRecords(r.st, tx)
  IN /\ \A raw \in RawNames : \A uid \in Fresh(TreeSessionIds, usedS) :
          Clean(NewSession(LiveTx, tx, raw, uid, clock, clock))
     /\ \A s \in TreeSessionIds :
          /\ \A raw \in RawNames : Clean(UpdateSessionName(LiveTx, tx, s, raw, clock))
          /\ \A status \in Statuses :
               Clean(UpdateSessionStatus(LiveTx, tx, s, status, clock))
          /\ Clean(DeleteSession(LiveTx, tx, s))
          /\ \A uid \in Fresh(TreeWindowIds, usedW), nano \in NanoIds :
               Clean(NewWindow(LiveTx, tx, s, nano, uid, clock, clock))
          /\ Clean(DeleteWindows(LiveTx, tx, s))
          /\ \A w \in TreeWindowIds :
               /\ Clean(DeleteWindow(LiveTx, tx, s, w))
               /\ \A uid \in Fresh(TreePaneIds, usedP) :
                    Clean(NewPane(LiveTx, tx, s, w, 80, 24, 0, 0, "/tmp", uid, clock, clock))
               /\ Clean(DeletePanes(LiveTx, tx, s, w))
               /\ \A p \in TreePaneIds :
                    /\ Clean(DeletePane(LiveTx, tx, s, w, p))
                    /\ Clean(UpdatePaneSize(LiveTx, tx, s, w, p, 120, 40, clock))
                    /\ Clean(UpdatePanePosition(LiveTx, tx, s, w, p, 5, 6, clock))
                    /\ Clean(UpdatePaneCwd(LiveTx, tx, s, w, p, "/home", clock))

(* C20 - Status writes are unguarded: UpdateSessionStatus(id, s) on a stored
   session succeeds whatever its current status and s are, Terminated to
   Active included, and changes the status and updatedAt of that record and
   nothing else; on an id with no record it fails with ErrSessionNotFound
   and changes no record. *)
StatusWritesUnguarded ==
  \A id \in SessionIds, status \in Statuses : \A now \in Reading(1) :
    LET r == UpdateSessionStatus(LiveTx, tx, id, status, now)
    IN IF id \in DOMAIN tx.sessions
       THEN /\ r.err = "nil"
            /\ GetSession(LiveTx, r.st, id).val =
                 [GetSession(LiveTx, tx, id).val EXCEPT !.Status = status, !.UpdatedAt = now]
            /\ DOMAIN r.st.sessions = DOMAIN tx.sessions
            /\ \A j \in DOMAIN tx.sessions \ {id} : r.st.sessions[j] = tx.sessions[j]
            /\ r.st.lookup = tx.lookup
            /\ r.st.windows = tx.windows
            /\ r.st.panes = tx.panes
       ELSE r.err = "ErrSessionNotFound" /\ SameRecords(r.st, tx)

(* a Terminated session, updated after its creation, and an id whose
   session was deleted *)
StatusWritesWitness ==
  /\ \E j \in usedS \ DOMAIN tx.sessions :
       UpdateSessionStatus(LiveTx, tx, j, Active, clock).err = "ErrSessionNotFound"
  /\ \E id \in DOMAIN tx.sessions :
       /\ GetSession(LiveTx, tx, id).val.Status = Terminated
       /\ GetSession(LiveTx, tx, id).val.UpdatedAt > GetSession(LiveTx, tx, id).val.CreatedAt
       /\ UpdateSessionStatus(LiveTx, tx, id, Active, clock).err = "nil"

(* C21 - Identity is immutable: every step of the store keeps, for each
   session, window and pane record that is still there after it, the id and
   createdAt written at creation (and a window's sessionId, a pane's
   sessionId and windowId), and leaves each record under the key equal to
   its id; the same holds for a move or a change of directory of a pane at
   any reading of the clock. *)
IdentityImmutable ==
  /\ [][IdentityKept(tx, tx')]_vars
  /\ [](\A p \in PanesOf(tx, 1) : \A now \in Reading(1) :
          /\ IdentityKept(tx, UpdatePanePosition(LiveTx, tx, 1, 1, p, 5, 6, now).st)
          /\ IdentityKept(tx, UpdatePaneCwd(LiveTx, tx, 1, 1, p, "/home", now).st))

(* a session renamed and terminated after its creation, holding a pane
   resized after its creation, while another pane has been deleted *)
IdentityWitness ==
  /\ \E k \in DOMAIN tx.sessions :
       LET e == UnmarshalSession(tx.sessions[k])
       IN e.Name = <<"b">> /\ e.Status = Terminated /\ e.UpdatedAt > e.CreatedAt
  /\ \E w \in DOMAIN tx.panes : \E k \in DOMAIN tx.panes[w] :
       LET e == UnmarshalPane(tx.panes[w][k])
       IN e.Width = 120 /\ e.UpdatedAt > e.CreatedAt
  /\ \E k \in usedP : \A w \in DOMAIN tx.panes : k \notin DOMAIN tx.panes[w]

(* C22 - No orphans after session delete: after a successful
   DeleteSession(S) the store holds no window record and no pane record
   whose sessionId is S, whatever operations ran before, earlier
   DeleteWindow calls on windows of S that held panes included. *)
NoOrphansAfterSessionDelete ==
  \A s \in TreeSessionIds :
    LET r == DeleteSession(LiveTx, tx, s)
    IN r.err = "nil" =>
         /\ \A b \in DOMAIN r.st.windows : \A k \in DOMAIN r.st.windows[b] :
              UnmarshalWindow(r.st.windows[b][k]).SessionID # s
         /\ \A w \in DOMAIN r.st.panes : \A k \in DOMAIN r.st.panes[w] :
              UnmarshalPane(r.st.panes[w][k]).SsessionID # s

(* C23 - No dangling index entry: in every reachable store, each entry
   n -> id of the session name index refers to a stored session record with
   that id whose name is n. *)
NoDanglingIndexEntry ==
  \A n \in DOMAIN tx.lookup :
    LET g == GetSession(LiveTx, tx, tx.lookup[n])
    IN g.err = "nil" /\ g.val.ID = tx.lookup[n] /\ g.val.Name = n

(* one session has been deleted, and the index holds the entry of the
   session that is left *)
NoDanglingIndexWitness ==
  /\ usedS \ DOMAIN tx.sessions # {}
  /\ \E n \in DOMAIN tx.lookup : tx.lookup[n] \in DOMAIN tx.sessions /\ Len(n) = MaxNameLen

(* C24 - List returns exactly the live records: GetSessions, GetWindows(S)
   for a stored session S and GetPanes(S, W) for a stored window W succeed
   and return the records of their scope that are stored, each once, the
   empty list when there is none; so the result is a function of the stored
   records alone. *)
ListReturnsLiveRecords ==
  LET Exactly(r, records) ==
        /\ r.err = "nil"
        /\ Len(r.val) = Cardinality(records)
        /\ {r.val[i] : i \in 1..Len(r.val)} = records
  IN /\ Exactly(GetSessions(LiveTx, tx),
                {UnmarshalSession(tx.sessions[k]) : k \in DOMAIN tx.sessions})
     /\ \A s \in DOMAIN tx.sessions :
          /\ Exactly(GetWindows(LiveTx, tx, s),
                     {UnmarshalWindow(tx.windows[s][k]) : k \in WindowsOf(tx, s)})
          /\ \A w \in WindowsOf(tx, s) :
               Exactly(GetPanes(LiveTx, tx, s, w),
                       {UnmarshalPane(tx.panes[w][k]) : k \in PanesOf(tx, w)})

(* C25 - Namespace isolation: a window stored under session S1 is not
   returned by GetWindow or GetWindows of another session S2 and is left as
   it is by DeleteWindow(S2, ...) and DeleteSession(S2); a pane stored under
   window W1 is not returned by GetPane or GetPanes addressed to another
   window W2 and is left as it is by DeletePane, DeletePanes and the pane
   updates addressed to W2. *)
NamespaceIsolation ==
  /\ \A s1 \in DOMAIN tx.windows : \A s2 \in TreeSessionIds \ {s1} :
       /\ \A w \in TreeWindowIds : DeleteWindow(LiveTx, tx, s2, w).st.windows[s1] = tx.windows[s1]
       /\ LET d == DeleteSession(LiveTx, tx, s2)
          IN /\ d.st.windows[s1] = tx.windows[s1]
             /\ \A w \in WindowsOf(tx, s1) : PanesOf(d.st, w) = PanesOf(tx, w)
       /\ \A w \in WindowsOf(tx, s1) :
            /\ GetWindow(LiveTx, tx, s2, w).err # "nil"
            /\ LET l == GetWindows(LiveTx, tx, s2).val
               IN \A i \in 1..Len(l) : l[i].ID # w
  /\ \A w1 \in DOMAIN tx.panes : \A s \in TreeSessionIds, w2 \in TreeWindowIds \ {w1} :
       /\ DeletePanes(LiveTx, tx, s, w2).st.panes[w1] = tx.panes[w1]
       /\ LET l == GetPanes(LiveTx, tx, s, w2).val
          IN \A i \in 1..Len(l) : l[i].ID \notin PanesOf(tx, w1)
       /\ \A p \in TreePaneIds :
            /\ DeletePane(LiveTx, tx, s, w2, p).st.panes[w1] = tx.panes[w1]
            /\ UpdatePaneSize(LiveTx, tx, s, w2, p, 120, 40, clock).st.panes[w1] = tx.panes[w1]
            /\ UpdatePanePosition(LiveTx, tx, s, w2, p, 5, 6, clock).st.panes[w1] = tx.panes[w1]
            /\ UpdatePaneCwd(LiveTx, tx, s, w2, p, "/home", clock).st.panes[w1] = tx.panes[w1]
            /\ p \in PanesOf(tx, w1) => GetPane(LiveTx, tx, s, w2, p).err # "nil"

(* two sessions, each with a window that holds a pane; deleting the second
   session, and deleting the first one's window and pane through the second
   one's names, all succeed *)
NamespaceIsolationWitness ==
  \E s1 \in DOMAIN tx.sessions, s2 \in DOMAIN tx.sessions :
    \E w1 \in WindowsOf(tx, s1), w2 \in WindowsOf(tx, s2) :
      \E p1 \in PanesOf(tx, w1), p2 \in PanesOf(tx, w2) :
        /\ s1 # s2
        /\ DeleteSession(LiveTx, tx, s2).err = "nil"
        /\ DeleteWindow(LiveTx, tx, s2, w1).err = "nil"
        /\ DeletePane(LiveTx, tx, s2, w2, p1).err = "nil"
        /\ DeletePanes(LiveTx, tx, s2, w2).err = "nil"

(* C26 - Window indices are not guaranteed distinct: whenever a session
   holds a window v whose index is one less than the number of its windows
   and another window w, DeleteWindow(w) followed by NewWindow, each
   committed on its own, gives the new window the index of v while v is
   still stored; create, create, delete the first, create is such a
   sequence. *)
WindowIndicesNotDistinct ==
  \A w \in WindowsOf(tx, 1), v \in WindowsOf(tx, 1) :
    \A uid \in Fresh(IndexWindowIds, usedW) \ {0}, nano \in NanoIds :
      LET count == Cardinality(WindowsOf(tx, 1))
          d == DeleteWindow(LiveTx, tx, 1, w)
          n == NewWindow(LiveTx, Land(d, TRUE), 1, nano, uid, clock, clock)
          after == Land(n, TRUE)
      IN (w # v /\ GetWindow(LiveTx, tx, 1, v).val.Index = count - 1) =>
           /\ d.err = "nil" /\ n.err = "nil"
           /\ WindowsOf(after, 1) = (WindowsOf(tx, 1) \ {w}) \cup {uid}
           /\ GetWindow(LiveTx, after, 1, uid).val.Index =
                GetWindow(LiveTx, after, 1, v).val.Index

(* after a delete, two stored windows of the session carry the index 1 *)
WindowIndicesWitness ==
  /\ tx = db
  /\ usedW \ WindowsOf(tx, 1) # {}
  /\ \E v \in WindowsOf(tx, 1), u \in WindowsOf(tx, 1) :
       /\ u # v
       /\ GetWindow(LiveTx, tx, 1, u).val.Index = 1
       /\ GetWindow(LiveTx, tx, 1, v).val.Index = 1

(* C28 - Reads are pure: GetSession, GetSessions, sessionWithNameExists,
   GetWindow, GetWindows, GetPane and GetPanes leave the store, records and
   buckets, exactly as it was, whether they succeed or fail. *)
ReadsArePure ==
  \A txn \in TxArgs :
    /\ GetSessions(txn, tx).st = tx
    /\ \A raw \in RawNames : sessionWithNameExists(txn, tx, raw).st = tx
    /\ \A s \in TreeSessionIds :
         /\ GetSession(txn, tx, s).st = tx
         /\ GetWindows(txn, tx, s).st = tx
         /\ \A w \in TreeWindowIds :
              /\ GetWindow(txn, tx, s, w).st = tx
              /\ GetPanes(txn, tx, s, w).st = tx
              /\ \A p \in TreePaneIds : GetPane(txn, tx, s, w, p).st = tx

(* a store on which reads of each kind succeed, while the windows of a
   second session and the panes of a second window cannot be listed for
   want of their bucket *)
ReadsArePureWitness ==
  \E s \in DOMAIN tx.sessions, t \in DOMAIN tx.sessions :
    \E w \in WindowsOf(tx, s), v \in WindowsOf(tx, s) : \E p \in PanesOf(tx, w) :
      /\ GetPane(LiveTx, tx, s, w, p).err = "nil"
      /\ Len(GetPanes(LiveTx, tx, s, w).val) = 1
      /\ Len(GetWindows(LiveTx, tx, s).val) = 2
      /\ Len(GetSessions(LiveTx, tx).val) = 2
      /\ sessionWithNameExists(LiveTx, tx, <<"a">>).exists
      /\ GetPanes(LiveTx, tx, s, v).err = "ErrPaneWindowBucketNotFound"
      /\ GetWindows(LiveTx, tx, t).err = "ErrWindowSessionBucketNotFound"

(* C29 - Released names become available: after a successful DeleteSession
   of a session named n, or a successful UpdateSessionName of that session
   from n to another name, when no other session holds n, a following
   NewSession(n) succeeds and n resolves to the new session. *)
ReleasedNamesAvailable ==
  \A id \in DOMAIN tx.sessions : \A uid \in Fresh(SessionIds, usedS) :
    LET n == UnmarshalSession(tx.sessions[id]).Name
        Available(r) ==
          LET c == NewSession(LiveTx, Land(r, TRUE), n, uid, clock, clock)
          IN (r.err = "nil" /\ Holders(r.st, n) = {}) =>
               /\ c.err = "nil"
               /\ sessionWithNameExists(LiveTx, c.st, n).id = uid
    IN /\ Available(DeleteSession(LiveTx, tx, id))
       /\ \A raw \in RawNames :
            validateName(raw).name # n =>
              Available(UpdateSessionName(LiveTx, tx, id, raw, clock))

(* beside another session, a session whose delete and whose rename both
   succeed and release a name no one else holds *)
ReleasedNamesWitness ==
  \E id \in DOMAIN tx.sessions, other \in DOMAIN tx.sessions :
    LET n == UnmarshalSession(tx.sessions[id]).Name
        d == DeleteSession(LiveTx, tx, id)
        r == UpdateSessionName(LiveTx, tx, id, <<"a", "a">>, clock)
    IN /\ other # id
       /\ n # <<"a", "a">>
       /\ sessionWithNameExists(LiveTx, tx, n).exists
       /\ d.err = "nil" /\ Holders(d.st, n) = {}
       /\ r.err = "nil" /\ Holders(r.st, n) = {}

(* C30 - Deleting an absent child is a silent no-op: DeleteWindow(S, w) for
   a stored session S without a window record w, and DeletePane(S, W, p)
   for a stored window W without a pane record p, return no error and
   change no record; deleting a stored window or pane a second time returns
   no error and leaves the records as the first delete left them. *)
AbsentChildDeleteNoOp ==
  \A s \in DOMAIN tx.sessions :
    /\ \A w \in TreeWindowIds :
         LET once == DeleteWindow(LiveTx, tx, s, w)
             twice == DeleteWindow(LiveTx, once.st, s, w)
         IN /\ once.err = "nil" /\ twice.err = "nil"
            /\ StoredRecords(twice.st) = StoredRecords(once.st)
            /\ w \notin WindowsOf(tx, s) => StoredRecords(once.st) = StoredRecords(tx)
    /\ \A w \in WindowsOf(tx, s) : \A p \in TreePaneIds :
         LET once == DeletePane(LiveTx, tx, s, w, p)
             twice == DeletePane(LiveTx, once.st, s, w, p)
         IN /\ once.err = "nil" /\ twice.err = "nil"
            /\ StoredRecords(twice.st) = StoredRecords(once.st)
            /\ p \notin PanesOf(tx, w) => StoredRecords(once.st) = StoredRecords(tx)

(* a session that has lost a window and whose other window holds a pane
   and has lost one *)
AbsentChildDeleteWitness ==
  \E s \in DOMAIN tx.sessions : \E w \in WindowsOf(tx, s) : \E p \in PanesOf(tx, w) :
    /\ \E v \in usedW \ WindowsOf(tx, s) : DeleteWindow(LiveTx, tx, s, v).err = "nil"
    /\ \E q \in usedP \ PanesOf(tx, w) : DeletePane(LiveTx, tx, s, w, q).err = "nil"
    /\ DeletePane(LiveTx, DeletePane(LiveTx, tx, s, w, p).st, s, w, p).err = "nil"

====
